---- MODULE Spec2Model ----
(***************************************************************************)
(* Ride lifecycle of the ride-hailing backend: the HTTP handlers of        *)
(* routes/ride.js and of the driver routes, run as interleaved request     *)
(* handlers over one document store.  Node runs each handler atomically    *)
(* between two awaits, so every action below is one such segment: the      *)
(* store operation that the await completes plus the synchronous code      *)
(* that follows it up to the next await or the response.                   *)
(*                                                                         *)
(* Money: the fare engine computes in binary64 as JavaScript does and      *)
(* rounds to two decimals; a fare is held as its amount in hundredths of a *)
(* rupee.  A cancellation fee is 10% of a fare and is held in thousandths, *)
(* as is the refund; the representation error of the unrounded product     *)
(* finalAmount * 0.1 (below 1e-13) is not modelled.                        *)
(***************************************************************************)
EXTENDS Integers, Sequences, FiniteSets, TLC

\* ---------------------------------------------------------------- bounds
MaxRides == 1
MaxTrack == 2
\* real-time connections open at a time
MaxSockets == 2
\* rides of the store the rating handler is run on
RatedRides == 3
\* pending rides of the store the accept handler is run on
OfferedRides == 2
\* withdrawal requests in the store
MaxPayments == 2
\* OTP records in the store at a time
MaxOtps == 2
\* attempts counted on an OTP record
MaxAttempts == 2

\* ------------------------------------------------------------- population
Riders == {"u1"}
Drivers == {"d1", "d2"}
Users == Riders \cup Drivers
\* the callers of cancel: the requesters and one foreign account
Cancellers == Riders \cup {"d1"}
Calls == {1, 2}
NoDriver == "none"

\* the user accounts of the store: u2 is an account whose isActive is false
Accounts == Users \cup {"u2"}
role(u) == IF u \in Drivers THEN "Driver" ELSE "User"

\* positions a driver reports, as the distance from the pickup point
Positions == {3, 40}

\* driverInfo.vehicleType of each driver account
DriverVehicle(d) == "Car"

\* rideType values a request is made with
RequestedTypes == {"Car", "Bike"}

\* route estimates the distance provider answers with: <<metres, seconds>>
RouteEstimates == {<<6200, 1080>>, <<20000, 4500>>, <<50000, 3600>>}

Statuses == {"pending", "searching", "accepted", "arrived", "started",
             "completed", "cancelled"}
Terminal == {"completed", "cancelled"}

Min(a, b) == IF a <= b THEN a ELSE b
Max(a, b) == IF a >= b THEN a ELSE b

\* ------------------------------------------------------------------ state
VARIABLES
  rides,        \* the Ride collection: a sequence, a ride's id is its index
  isAvailable,  \* driverInfo.isAvailable of each driver
  calls,        \* the request handlers in flight, one per slot
  last,         \* the response sent by the latest step, if it sent one, or
                \* the accept-ride message it handled
  acceptedBy,   \* per ride id, the drivers whose accept-ride answered success
  everAccepted, \* the ids of the rides some accept-ride has written
  profile,      \* driverInfo.rating of each driver, in tenths, the ratings
                \* it was last computed over, and whether that write was
                \* computed over the same ratings as the write before it
  quote,        \* one call of the fare engine: its arguments and its result
  sockets,      \* the real-time connections: the user of each, its rooms and
                \* the token it presented
  emitted,      \* the events the latest step published on the event bus
  currentLocation, \* driverInfo.currentLocation of each driver
  deleted,      \* the accounts that delete-account has marked inactive
  payments,     \* the Payment collection: the withdrawal requests saved
  otps,         \* the OTP collection: the signup records, latest last
  users         \* the accounts that verify-otp has created

vars == <<rides, isAvailable, calls, last, acceptedBy, everAccepted, profile,
          quote, sockets, emitted, currentLocation, deleted, payments, otps,
          users>>

\* user.isActive
isActive(u) == u # "u2" /\ u \notin deleted

\* ------------------------------------------ JavaScript numbers (binary64)
\* A non-negative integer of any size is a sequence of limbs, least
\* significant first, each limb in 0..LimbBase-1.
LimbBits == 15
LimbBase == 32768

RECURSIVE Limbs(_)
Limbs(n) == IF n = 0 THEN <<>> ELSE <<n % LimbBase>> \o Limbs(n \div LimbBase)

RECURSIVE ToInt(_)
ToInt(a) == IF a = <<>> THEN 0 ELSE a[1] + LimbBase * ToInt(Tail(a))

RECURSIVE Norm(_)
Norm(a) ==
  IF a = <<>> THEN a
  ELSE IF a[Len(a)] = 0 THEN Norm(SubSeq(a, 1, Len(a) - 1)) ELSE a

RECURSIVE AddLimbs(_, _, _)
AddLimbs(a, b, carry) ==
  IF a = <<>> /\ b = <<>> THEN (IF carry = 0 THEN <<>> ELSE <<carry>>)
  ELSE LET x == IF a = <<>> THEN 0 ELSE a[1]
           y == IF b = <<>> THEN 0 ELSE b[1]
           s == x + y + carry
       IN <<s % LimbBase>> \o AddLimbs(IF a = <<>> THEN a ELSE Tail(a),
                                       IF b = <<>> THEN b ELSE Tail(b),
                                       s \div LimbBase)

\* a * k for 0 <= k < LimbBase
RECURSIVE MulSmall(_, _, _)
MulSmall(a, k, carry) ==
  IF a = <<>> THEN (IF carry = 0 THEN <<>> ELSE <<carry>>)
  ELSE LET p == a[1] * k + carry
       IN <<p % LimbBase>> \o MulSmall(Tail(a), k, p \div LimbBase)

RECURSIVE MulLimbs(_, _)
MulLimbs(a, b) ==
  IF b = <<>> \/ a = <<>> THEN <<>>
  ELSE Norm(AddLimbs(MulSmall(a, b[1], 0), <<0>> \o MulLimbs(a, Tail(b)), 0))

\* quotient and remainder of a by d, 0 < d < LimbBase, from limb i downwards
RECURSIVE DivSmall(_, _, _, _)
DivSmall(a, d, i, rem) ==
  IF i = 0 THEN [q |-> <<>>, r |-> rem]
  ELSE LET cur == rem * LimbBase + a[i]
           rest == DivSmall(a, d, i - 1, cur % d)
       IN [q |-> rest.q \o <<cur \div d>>, r |-> rest.r]

\* a * 2^k
ShiftLeft(a, k) ==
  IF a = <<>> THEN a
  ELSE [i \in 1..(k \div LimbBits) |-> 0] \o MulSmall(a, 2 ^ (k % LimbBits), 0)

\* a \div 2^k, and whether a bit that was shifted out was set
ShiftRight(a, k) ==
  LET n == k \div LimbBits
      high == IF n >= Len(a) THEN <<>> ELSE SubSeq(a, n + 1, Len(a))
      d == DivSmall(high, 2 ^ (k % LimbBits), Len(high), 0)
  IN [q |-> Norm(d.q),
      lost |-> d.r # 0 \/ \E i \in 1..Min(n, Len(a)) : a[i] # 0]

\* the number of bits of a
BitLength(a) ==
  IF a = <<>> THEN 0
  ELSE LimbBits * (Len(a) - 1)
       + (CHOOSE n \in 1..LimbBits : 2 ^ (n - 1) <= a[Len(a)] /\ a[Len(a)] < 2 ^ n)

\* A number is m * 2^e; a double has a mantissa m of at most 53 bits.
MantissaBits == 53

Number(n) == [m |-> Limbs(n), e |-> 0]

\* the halves n / 2
Halves(n) == [m |-> Limbs(n), e |-> 0 - 1]

\* the double nearest to m * 2^e (ties to the even mantissa); inexact tells
\* that m * 2^e is itself a truncation
RoundToDouble(m, e, inexact) ==
  LET drop == BitLength(m) - MantissaBits
  IN IF drop <= 0 THEN [m |-> m, e |-> e]
     ELSE LET t == ShiftRight(m, drop - 1)
              kept == DivSmall(t.q, 2, Len(t.q), 0)
              up == kept.r = 1 /\ (t.lost \/ inexact \/ kept.q[1] % 2 = 1)
          IN [m |-> IF up THEN AddLimbs(Norm(kept.q), <<1>>, 0) ELSE Norm(kept.q),
              e |-> e + drop]

\* x * y
Times(x, y) == RoundToDouble(MulLimbs(x.m, y.m), x.e + y.e, FALSE)

\* x + y before it is rounded: both mantissas brought to the lower exponent
Sum(x, y) ==
  LET e == Min(x.e, y.e)
  IN [m |-> AddLimbs(ShiftLeft(x.m, x.e - e), ShiftLeft(y.m, y.e - e), 0), e |-> e]

\* x + y
Plus(x, y) == RoundToDouble(Sum(x, y).m, Sum(x, y).e, FALSE)

QuotientShift == 64

\* a / b for integers a >= 0 and 0 < b < LimbBase
Quotient(a, b) ==
  LET num == ShiftLeft(Limbs(a), QuotientShift)
      d == DivSmall(num, b, Len(num), 0)
  IN RoundToDouble(Norm(d.q), 0 - QuotientShift, d.r # 0)

\* Math.round(x): the nearest integer, halves upwards
MathRound(x) ==
  IF x.e >= 0 THEN ToInt(ShiftLeft(x.m, x.e))
  ELSE LET t == AddLimbs(ShiftRight(x.m, (0 - x.e) - 1).q, <<1>>, 0)
       IN ToInt(Norm(DivSmall(t, 2, Len(t), 0).q))

\* ------------------------------------------------------------ fare engine
\* baseFares table; perMin is held doubled (Auto's rate is 1.5)
BaseFares ==
  [Bike  |-> [base |-> 20,  perKm |-> 8,  perMin2 |-> 2],
   Auto  |-> [base |-> 30,  perKm |-> 12, perMin2 |-> 3],
   Car   |-> [base |-> 50,  perKm |-> 15, perMin2 |-> 4],
   Truck |-> [base |-> 100, perKm |-> 25, perMin2 |-> 6]]

\* RatesFor falling back to the first row of the table
RatesFor_FallbackBike(vehicleType) ==
  IF vehicleType \in DOMAIN BaseFares THEN BaseFares[vehicleType]
  ELSE BaseFares["Bike"]

\* baseFares[vehicleType] || baseFares['Car']
RatesFor(vehicleType) ==
  IF vehicleType \in DOMAIN BaseFares THEN BaseFares[vehicleType]
  ELSE BaseFares["Car"]

\* the distance matrix answered est = <<metres, seconds>>:
\* distance = value / 1000 km, duration = value / 60 min
getDistanceAndDuration(est) ==
  [distance |-> Quotient(est[1], 1000), duration |-> Quotient(est[2], 60)]

\* calculateFare raising the surge by half while no driver is available
calculateFare_Surging(distance, duration, vehicleType, surgeMultiplier) ==
  LET rates == RatesFor(vehicleType)
      surge == IF \E d \in DOMAIN isAvailable : isAvailable[d]
                 THEN surgeMultiplier ELSE Times(surgeMultiplier, Halves(3))
      totalFare == Times(Plus(Plus(Number(rates.base),
                                   Times(distance, Number(rates.perKm))),
                              Times(duration, Halves(rates.perMin2))), surge)
  IN [baseFare     |-> rates.base * 100,
      distanceFare |-> MathRound(Times(Times(distance, Number(rates.perKm)),
                                       Number(100))),
      timeFare     |-> MathRound(Times(Times(duration, Halves(rates.perMin2)),
                                       Number(100))),
      totalFare    |-> MathRound(Times(totalFare, Number(100))),
      surgeMultiplier |-> surgeMultiplier]

\* calculateFare(distance, duration, vehicleType, surgeMultiplier) on doubles.
\* Math.round(x * 100) / 100 is held as the integer Math.round(x * 100), the
\* amount in hundredths of a rupee.
calculateFare(distance, duration, vehicleType, surgeMultiplier) ==
  LET rates == RatesFor(vehicleType)
      baseFare == Number(rates.base)
      distanceFare == Times(distance, Number(rates.perKm))
      timeFare == Times(duration, Halves(rates.perMin2))
      totalFare == Times(Plus(Plus(baseFare, distanceFare), timeFare),
                         surgeMultiplier)
  IN [baseFare     |-> rates.base * 100,
      distanceFare |-> MathRound(Times(distanceFare, Number(100))),
      timeFare     |-> MathRound(Times(timeFare, Number(100))),
      totalFare    |-> MathRound(Times(totalFare, Number(100))),
      surgeMultiplier |-> surgeMultiplier]

\* ---------------------------------------------------------- initial state
RideIds == 1..MaxRides

\* the rooms of the event bus; Everyone stands for an emit without a room
RideRoom(r) == <<"ride", r, "none">>
UserRoom(u) == <<"user", 0, u>>
SocketRoom(s) == <<"socket", s, "none">>
DriversRoom == <<"drivers", 0, "none">>
Everyone == <<"all", 0, "none">>

\* io.to(room).emit(name): published by the server to the whole room
Emit(name, room) == [name |-> name, to |-> room, except |-> 0]

\* socket.to(room).emit(name): published to the room but for the sender
EmitFrom(s, name, room) == [name |-> name, to |-> room, except |-> s]

Conns == 1..MaxSockets

\* the token of a handshake: the user id it was issued for and whether
\* jwt.verify accepts it; NoToken is a handshake without token
NoToken == [userId |-> "none", valid |-> FALSE]
Tokens == {NoToken} \cup [userId : Accounts \cup {"ghost"}, valid : BOOLEAN]

\* a connection that is not established
NoSocket == [user |-> "none", rooms |-> {}, token |-> NoToken]

\* the connections an event is delivered to
Receivers(e) ==
  {s \in Conns : /\ sockets[s] # NoSocket
                 /\ s # e.except
                 /\ (e.to = Everyone \/ e.to \in sockets[s].rooms)}

\* the deliveries of events named name to connection s in the latest step
Deliveries(name, s) ==
  Cardinality({i \in DOMAIN emitted :
                 emitted[i].name = name /\ s \in Receivers(emitted[i])})
Existing == DOMAIN rides

\* rating.userRating of a ride that has not been rated
NoUserRating == [rating |-> 0, feedback |-> "none", date |-> 0]

Idle == [op |-> "none", user |-> "none", ride |-> 0, pc |-> "idle",
         arg |-> "none", avail |-> FALSE, fee |-> 0, snapStatus |-> "none",
         snapDriver |-> NoDriver, userRating |-> NoUserRating, seen |-> {},
         averageRating |-> Number(0), at |-> 0]

NoResponse == [op |-> "none", user |-> "none", ride |-> 0, result |-> "none",
               fee |-> 0, refund |-> 0]

NoCancellation == [by |-> "none", fee |-> 0]

\* a driver profile whose rating has not been computed yet
NoRating == [rating |-> 0, over |-> {}, again |-> FALSE]

\* the breakdown slot of a fare engine call that has not returned
NoResult == [baseFare |-> 0, distanceFare |-> 0, timeFare |-> 0,
             totalFare |-> 0, surgeMultiplier |-> Number(0)]

NoQuote == [est |-> <<0, 0>>, vehicleType |-> "none", surge2 |-> 0,
            result |-> NoResult]

Init ==
  /\ rides = <<>>
  /\ isAvailable \in [Drivers -> BOOLEAN]
  /\ calls = [c \in Calls |-> Idle]
  /\ last = NoResponse
  /\ acceptedBy = [r \in RideIds |-> {}]
  /\ everAccepted = {}
  /\ profile = [d \in Drivers |-> NoRating]
  /\ quote = NoQuote
  /\ sockets = [s \in Conns |-> NoSocket]
  /\ emitted = <<>>
  /\ currentLocation = [d \in Drivers |-> 3]
  /\ deleted = {}
  /\ payments = <<>>
  /\ otps = <<>>
  /\ users = {}

\* a new request is served in the first free slot
FreeSlot(c) ==
  /\ calls[c].pc = "idle"
  /\ \A c2 \in Calls : calls[c2].pc = "idle" => c2 >= c

\* a step that sends a response and publishes events
Publish(op, user, ride, result, fee, refund, events) ==
  /\ last' = [op |-> op, user |-> user, ride |-> ride, result |-> result,
              fee |-> fee, refund |-> refund]
  /\ emitted' = events

\* a step that sends a response and publishes nothing
Respond(op, user, ride, result, fee, refund) ==
  Publish(op, user, ride, result, fee, refund, <<>>)

\* a step that sends no response and publishes nothing
Quiet == last' = NoResponse /\ emitted' = <<>>

Free(c) == calls' = [calls EXCEPT ![c] = Idle]

\* ------------------------------------------------- POST /request (ride.js)
\* the status a ride is created with (the default of the Ride schema)
DefaultStatus == "pending"

\* NewRide leaving the time fare out of the amount due
NewRide_WithoutTimeFare(u, rideType, est) ==
  LET route == getDistanceAndDuration(est)
      fare == calculateFare(route.distance, route.duration, rideType, Number(1))
  IN [user |-> u, rideType |-> rideType, status |-> DefaultStatus,
      driver |-> NoDriver, route |-> est,
      pricing |-> [baseFare |-> fare.baseFare,
                   distanceFare |-> fare.distanceFare,
                   timeFare |-> fare.timeFare, totalFare |-> fare.totalFare],
      finalAmount |-> fare.baseFare + fare.distanceFare,
      cancellation |-> NoCancellation, tracking |-> <<>>,
      userRating |-> NoUserRating]

\* new Ride({...}): route is the estimate the fare was computed from, pricing
\* is filled from calculateFare with the default surge multiplier 1
NewRide(u, rideType, est) ==
  LET route == getDistanceAndDuration(est)
      fare == calculateFare(route.distance, route.duration, rideType, Number(1))
  IN [user |-> u, rideType |-> rideType, status |-> DefaultStatus,
      driver |-> NoDriver, route |-> est,
      pricing |-> [baseFare |-> fare.baseFare,
                   distanceFare |-> fare.distanceFare,
                   timeFare |-> fare.timeFare, totalFare |-> fare.totalFare],
      finalAmount |-> fare.totalFare,
      cancellation |-> NoCancellation, tracking |-> <<>>,
      userRating |-> NoUserRating]

\* the route provider answered: fare computed, ride saved, the offer
\* new-ride-request broadcast, response 201
RequestRide(u, rideType, est) ==
  /\ Len(rides) < MaxRides
  /\ rides' = Append(rides, NewRide(u, rideType, est))
  /\ Publish("request", u, Len(rides) + 1, "success", 0, 0,
             <<Emit("new-ride-request", Everyone)>>)
  /\ UNCHANGED <<isAvailable, calls, acceptedBy, everAccepted, profile, quote,
                 sockets, currentLocation, deleted, payments, otps, users>>

\* RequestRideNoRoute going on to create the ride without an estimate
RequestRideNoRoute_SavesAnyway(u) ==
  /\ Len(rides) < MaxRides
  /\ rides' = Append(rides, NewRide(u, "Car", <<0, 0>>))
  /\ Publish("request", u, 0, "RouteUnavailable", 0, 0,
             <<Emit("new-ride-request", Everyone)>>)
  /\ UNCHANGED <<isAvailable, calls, acceptedBy, everAccepted, profile, quote,
                 sockets, currentLocation, deleted, payments, otps, users>>

\* the route provider failed: 400, nothing saved
RequestRideNoRoute(u) ==
  /\ Len(rides) < MaxRides
  /\ Respond("request", u, 0, "RouteUnavailable", 0, 0)
  /\ UNCHANGED <<rides, isAvailable, calls, acceptedBy, everAccepted, profile,
                 quote, sockets, currentLocation, deleted, payments, otps,
                 users>>

\* ------------------------------------------ PATCH /availability (drivers)
SetAvailability(d, b) ==
  /\ isAvailable[d] # b
  /\ isAvailable' = [isAvailable EXCEPT ![d] = b]
  /\ Quiet
  /\ UNCHANGED <<rides, calls, acceptedBy, everAccepted, profile, quote,
                 sockets, currentLocation, deleted, payments, otps, users>>

\* --------------------------------------- POST /accept-ride/:rideId (drivers)
\* authenticateToken loads req.user, and with it driverInfo.isAvailable
AcceptAuth(c, d, r) ==
  /\ FreeSlot(c)
  /\ calls' = [calls EXCEPT ![c] = [Idle EXCEPT !.op = "accept", !.user = d,
                                    !.ride = r, !.pc = "auth",
                                    !.avail = isAvailable[d]]]
  /\ Quiet
  /\ UNCHANGED <<rides, isAvailable, acceptedBy, everAccepted, profile, quote,
                 sockets, currentLocation, deleted, payments, otps, users>>

\* AcceptCheck with the vehicle check made before the status check
AcceptCheck_VehicleFirst(c) ==
  LET k == calls[c]
  IN IF k.ride \notin Existing THEN "NotFound"
     ELSE IF rides[k.ride].rideType # DriverVehicle(k.user) THEN "VehicleMismatch"
     ELSE IF rides[k.ride].status # "pending" THEN "RideUnavailable"
     ELSE IF ~k.avail THEN "DriverUnavailable"
     ELSE "ok"

\* the outcome of the handler's checks on the ride it loaded
AcceptCheck(c) ==
  LET k == calls[c]
  IN IF k.ride \notin Existing THEN "NotFound"
     ELSE IF rides[k.ride].status # "pending" THEN "RideUnavailable"
     ELSE IF rides[k.ride].rideType # DriverVehicle(k.user) THEN "VehicleMismatch"
     ELSE IF ~k.avail THEN "DriverUnavailable"
     ELSE "ok"

\* Ride.findById and the checks that follow it
AcceptLoad(c) ==
  LET k == calls[c]
  IN /\ k.op = "accept" /\ k.pc = "auth"
     /\ IF AcceptCheck(c) = "ok"
          THEN /\ calls' = [calls EXCEPT ![c].pc = "loaded"]
               /\ Quiet
          ELSE /\ Free(c)
               /\ Respond("accept", k.user, k.ride, AcceptCheck(c), 0, 0)
     /\ UNCHANGED <<rides, isAvailable, acceptedBy, everAccepted, profile,
                    quote, sockets, currentLocation, deleted, payments, otps,
                    users>>

\* AcceptWrite saving the status without the driver
AcceptWrite_StatusOnly(ride, d) == [ride EXCEPT !.status = "accepted"]

\* ride.driver = req.user._id; ride.status = 'accepted'; ride.save(): one
\* update of the document by its id, whatever it holds by now
AcceptWrite(ride, d) == [ride EXCEPT !.driver = d, !.status = "accepted"]

AcceptSave(c) ==
  LET k == calls[c]
  IN /\ k.op = "accept" /\ k.pc = "loaded"
     /\ rides' = [rides EXCEPT ![k.ride] = AcceptWrite(@, k.user)]
     /\ calls' = [calls EXCEPT ![c].pc = "saved"]
     /\ everAccepted' = everAccepted \cup {k.ride}
     /\ Quiet
     /\ UNCHANGED <<isAvailable, acceptedBy, profile, quote, sockets,
                    currentLocation, deleted, payments, otps, users>>

\* AcceptSetUnavailable leaving the driver's flag as it is
AcceptSetUnavailable_KeepsFlag(c) ==
  LET k == calls[c]
  IN /\ k.op = "accept" /\ k.pc = "saved"
     /\ Free(c)
     /\ acceptedBy' = [acceptedBy EXCEPT ![k.ride] = @ \cup {k.user}]
     /\ Publish("accept", k.user, k.ride, "success", 0, 0,
                <<Emit("ride-accepted", UserRoom(rides[k.ride].user))>>)
     /\ UNCHANGED <<rides, isAvailable, everAccepted, profile, quote, sockets,
                    currentLocation, deleted, payments, otps, users>>

\* User.findByIdAndUpdate(req.user._id, {'driverInfo.isAvailable': false})
\* resolved, then notification.save() resolved: ride-accepted is emitted and
\* 200 is sent.  The notification is a document of its own that no handler
\* reads, so its save is taken in the same step as the update before it.
AcceptSetUnavailable(c) ==
  LET k == calls[c]
  IN /\ k.op = "accept" /\ k.pc = "saved"
     /\ isAvailable' = [isAvailable EXCEPT ![k.user] = FALSE]
     /\ Free(c)
     /\ acceptedBy' = [acceptedBy EXCEPT ![k.ride] = @ \cup {k.user}]
     /\ Publish("accept", k.user, k.ride, "success", 0, 0,
                <<Emit("ride-accepted", UserRoom(rides[k.ride].user))>>)
     /\ UNCHANGED <<rides, everAccepted, profile, quote, sockets,
                    currentLocation, deleted, payments, otps, users>>

\* the same with notification.save() rejected: the catch block answers 500
AcceptNotifyFails(c) ==
  LET k == calls[c]
  IN /\ k.op = "accept" /\ k.pc = "saved"
     /\ isAvailable' = [isAvailable EXCEPT ![k.user] = FALSE]
     /\ Free(c)
     /\ Respond("accept", k.user, k.ride, "ServerError", 0, 0)
     /\ UNCHANGED <<rides, acceptedBy, everAccepted, profile, quote, sockets,
                    currentLocation, deleted, payments, otps, users>>

\* ------------------------------------------------ Ride model (models/Ride)
\* The order of the driver-initiated transitions.
Successor(status) ==
  CASE status = "accepted" -> "arrived"
    [] status = "arrived"  -> "started"
    [] status = "started"  -> "completed"
    [] OTHER               -> "none"

\* CanUpdateStatus letting every requested status through
CanUpdateStatus_AnyOrder(ride, status) == TRUE

\* ride.updateStatus(status): one conditional store operation that applies the
\* transition when it is the next one in order and fails otherwise
CanUpdateStatus(ride, status) == Successor(ride.status) = status

updateStatus(ride, status) == [ride EXCEPT !.status = status]

\* ride.cancelRide(by, reason, fee): one conditional store operation that
\* moves a ride that is not terminal to cancelled with its cancellation record
CanCancelRide(ride) == ride.status \notin Terminal

cancelRide(ride, by, fee) ==
  [ride EXCEPT !.status = "cancelled", !.cancellation = [by |-> by, fee |-> fee]]

\* ride.addTrackingLocation(coordinates, speed, heading): appends one entry,
\* stamped with the time of the append
addTrackingLocation(ride) ==
  [ride EXCEPT !.tracking = Append(@, Len(@) + 1)]

\* ------------------------------------------- POST /:rideId/cancel (ride.js)
CancellationFeeCap == 50000

\* CancellationFee without the cap
CancellationFee_NoCap(status, finalAmount) ==
  IF status = "accepted" \/ status = "arrived" THEN finalAmount ELSE 0

\* Math.min(ride.pricing.finalAmount * 0.1, 50) for an accepted or arrived
\* ride, else 0: thousandths of a rupee from a fare in hundredths
CancellationFee(status, finalAmount) ==
  IF status = "accepted" \/ status = "arrived"
    THEN Min(finalAmount, CancellationFeeCap)
    ELSE 0

\* RefundAmount that forgets the fee
RefundAmount_IgnoresFee(finalAmount, fee) == Max(0, 10 * finalAmount)

\* Math.max(0, ride.pricing.finalAmount - cancellationFee), in thousandths
RefundAmount(finalAmount, fee) == Max(0, 10 * finalAmount - fee)

\* CancelCheck without the test for a finished ride
CancelCheck_NoTerminalTest(u, r) ==
  IF r \notin Existing THEN "NotFound"
  ELSE IF rides[r].user # u THEN "Unauthorized"
  ELSE "ok"

CancelCheck(u, r) ==
  IF r \notin Existing THEN "NotFound"
  ELSE IF rides[r].user # u THEN "Unauthorized"
  ELSE IF rides[r].status \in Terminal THEN "AlreadyFinalized"
  ELSE "ok"

\* Ride.findById, the checks and the fee computed from the loaded document
CancelLoad(c, u, r) ==
  LET seen == IF r \in Existing THEN rides[r].status ELSE "none"
  IN /\ FreeSlot(c)
     /\ IF CancelCheck(u, r) = "ok"
          THEN /\ calls' = [calls EXCEPT ![c] =
                     [Idle EXCEPT !.op = "cancel", !.user = u, !.ride = r,
                                  !.pc = "loaded", !.snapStatus = seen,
                                  !.snapDriver = rides[r].driver,
                                  !.fee = CancellationFee(seen,
                                                          rides[r].finalAmount)]]
               /\ Quiet
          ELSE /\ Respond("cancel", u, r, CancelCheck(u, r), 0, 0)
               /\ UNCHANGED calls
     /\ UNCHANGED <<rides, isAvailable, acceptedBy, everAccepted, profile,
                    quote, sockets, currentLocation, deleted, payments, otps,
                    users>>

\* ride.cancelRide resolved and, when the loaded document had a driver, the
\* driver's notification saved: 200 with the fee and the refund
CancelSave(c) ==
  LET k == calls[c]
      ride == rides[k.ride]
  IN /\ k.op = "cancel" /\ k.pc = "loaded"
     /\ CanCancelRide(ride)
     /\ rides' = [rides EXCEPT ![k.ride] = cancelRide(@, "user", k.fee)]
     /\ Free(c)
     /\ Respond("cancel", k.user, k.ride, "success", k.fee,
                RefundAmount(ride.finalAmount, k.fee))
     /\ UNCHANGED <<isAvailable, acceptedBy, everAccepted, profile, quote,
                    sockets, currentLocation, deleted, payments, otps, users>>

\* ride.cancelRide resolved, the driver's notification.save() rejected: 500
CancelNotifyFails(c) ==
  LET k == calls[c]
  IN /\ k.op = "cancel" /\ k.pc = "loaded"
     /\ CanCancelRide(rides[k.ride])
     /\ k.snapDriver # NoDriver
     /\ rides' = [rides EXCEPT ![k.ride] = cancelRide(@, "user", k.fee)]
     /\ Free(c)
     /\ Respond("cancel", k.user, k.ride, "ServerError", 0, 0)
     /\ UNCHANGED <<isAvailable, acceptedBy, everAccepted, profile, quote,
                    sockets, currentLocation, deleted, payments, otps, users>>

\* ride.cancelRide rejected (the ride became terminal meanwhile): 500
CancelSaveFails(c) ==
  LET k == calls[c]
  IN /\ k.op = "cancel" /\ k.pc = "loaded"
     /\ ~CanCancelRide(rides[k.ride])
     /\ Free(c)
     /\ Respond("cancel", k.user, k.ride, "AlreadyFinalized", 0, 0)
     /\ UNCHANGED <<rides, isAvailable, acceptedBy, everAccepted, profile,
                    quote, sockets, currentLocation, deleted, payments, otps,
                    users>>

\* ------------------------------------------ PATCH /:rideId/status (ride.js)
validStatuses == {"accepted", "arrived", "started", "completed"}

\* the status values a request body carries
RequestedStatuses == validStatuses \cup {"cancelled"}

\* StatusCheck without the comparison of the caller with ride.driver
StatusCheck_AnyCaller(u, r, status) ==
  IF r \notin Existing THEN "NotFound"
  ELSE IF status \notin validStatuses THEN "InvalidStatus"
  ELSE "ok"

StatusCheck(u, r, status) ==
  IF r \notin Existing THEN "NotFound"
  ELSE IF rides[r].driver = NoDriver \/ rides[r].driver # u THEN "Unauthorized"
  ELSE IF status \notin validStatuses THEN "InvalidStatus"
  ELSE "ok"

\* Ride.findById and the checks on the loaded document
StatusLoad(c, u, r, status) ==
     /\ FreeSlot(c)
     /\ IF StatusCheck(u, r, status) = "ok"
          THEN /\ calls' = [calls EXCEPT ![c] =
                     [Idle EXCEPT !.op = "status", !.user = u, !.ride = r,
                                  !.pc = "loaded", !.arg = status]]
               /\ Quiet
          ELSE /\ Respond("status", u, r, StatusCheck(u, r, status), 0, 0)
               /\ UNCHANGED calls
     /\ UNCHANGED <<rides, isAvailable, acceptedBy, everAccepted, profile,
                    quote, sockets, currentLocation, deleted, payments, otps,
                    users>>

\* StatusSave making the driver of a completed ride available again
StatusSave_FreesDriver(c) ==
  LET k == calls[c]
  IN /\ k.op = "status" /\ k.pc = "loaded"
     /\ CanUpdateStatus(rides[k.ride], k.arg)
     /\ rides' = [rides EXCEPT ![k.ride] = updateStatus(@, k.arg)]
     /\ isAvailable' = [isAvailable EXCEPT ![k.user] =
                          IF k.arg = "completed" THEN TRUE ELSE @]
     /\ Free(c)
     /\ Respond("status", k.user, k.ride, "success", 0, 0)
     /\ UNCHANGED <<acceptedBy, everAccepted, profile, quote, sockets,
                    currentLocation, deleted, payments, otps, users>>

\* ride.updateStatus(status) resolved and the requester's notification saved:
\* 200.  The e-mail branch is taken for status 'accepted' only, which
\* updateStatus never applies.
StatusSave(c) ==
  LET k == calls[c]
  IN /\ k.op = "status" /\ k.pc = "loaded"
     /\ CanUpdateStatus(rides[k.ride], k.arg)
     /\ rides' = [rides EXCEPT ![k.ride] = updateStatus(@, k.arg)]
     /\ Free(c)
     /\ Respond("status", k.user, k.ride, "success", 0, 0)
     /\ UNCHANGED <<isAvailable, acceptedBy, everAccepted, profile, quote,
                    sockets, currentLocation, deleted, payments, otps, users>>

\* StatusNotifyFails undoing the status update
StatusNotifyFails_RollsBack(c) ==
  LET k == calls[c]
  IN /\ k.op = "status" /\ k.pc = "loaded"
     /\ CanUpdateStatus(rides[k.ride], k.arg)
     /\ Free(c)
     /\ Respond("status", k.user, k.ride, "ServerError", 0, 0)
     /\ UNCHANGED <<rides, isAvailable, acceptedBy, everAccepted, profile,
                    quote, sockets, currentLocation, deleted, payments, otps,
                    users>>

\* ride.updateStatus(status) resolved, notification.save() rejected: 500
StatusNotifyFails(c) ==
  LET k == calls[c]
  IN /\ k.op = "status" /\ k.pc = "loaded"
     /\ CanUpdateStatus(rides[k.ride], k.arg)
     /\ rides' = [rides EXCEPT ![k.ride] = updateStatus(@, k.arg)]
     /\ Free(c)
     /\ Respond("status", k.user, k.ride, "ServerError", 0, 0)
     /\ UNCHANGED <<isAvailable, acceptedBy, everAccepted, profile, quote,
                    sockets, currentLocation, deleted, payments, otps, users>>

\* ride.updateStatus(status) rejected: the catch block answers
StatusSaveFails(c) ==
  LET k == calls[c]
  IN /\ k.op = "status" /\ k.pc = "loaded"
     /\ ~CanUpdateStatus(rides[k.ride], k.arg)
     /\ Free(c)
     /\ Respond("status", k.user, k.ride, "InvalidTransition", 0, 0)
     /\ UNCHANGED <<rides, isAvailable, acceptedBy, everAccepted, profile,
                    quote, sockets, currentLocation, deleted, payments, otps,
                    users>>

\* -------------------------------------------- POST /:rideId/track (ride.js)
TrackCheck(u, r) ==
  IF r \notin Existing THEN "NotFound"
  ELSE IF rides[r].driver = NoDriver \/ rides[r].driver # u THEN "Unauthorized"
  ELSE IF rides[r].status \notin {"started", "completed"} THEN "NotTrackable"
  ELSE "ok"

\* Ride.findById and the checks on the loaded document; at is the instant of
\* the read on the clock that the appends to the log advance
TrackLoad(c, u, r) ==
     /\ FreeSlot(c)
     /\ IF TrackCheck(u, r) = "ok"
          THEN /\ Len(rides[r].tracking) < MaxTrack
               /\ calls' = [calls EXCEPT ![c] =
                     [Idle EXCEPT !.op = "track", !.user = u, !.ride = r,
                                  !.pc = "loaded",
                                  !.at = Len(rides[r].tracking) + 1]]
               /\ Quiet
          ELSE /\ Respond("track", u, r, TrackCheck(u, r), 0, 0)
               /\ UNCHANGED calls
     /\ UNCHANGED <<rides, isAvailable, acceptedBy, everAccepted, profile,
                    quote, sockets, currentLocation, deleted, payments, otps,
                    users>>

\* TrackSave stamping the entry with the instant the handler read the ride
TrackSave_StampedAtRead(c) ==
  LET k == calls[c]
  IN /\ k.op = "track" /\ k.pc = "loaded"
     /\ rides' = [rides EXCEPT ![k.ride].tracking = Append(@, k.at)]
     /\ Free(c)
     /\ Publish("track", k.user, k.ride, "success", 0, 0,
                <<Emit("ride-location-update", RideRoom(k.ride))>>)
     /\ UNCHANGED <<isAvailable, acceptedBy, everAccepted, profile, quote,
                    sockets, currentLocation, deleted, payments, otps, users>>

\* ride.addTrackingLocation resolved: ride-location-update is emitted, 200
TrackSave(c) ==
  LET k == calls[c]
  IN /\ k.op = "track" /\ k.pc = "loaded"
     /\ rides' = [rides EXCEPT ![k.ride] = addTrackingLocation(@)]
     /\ Free(c)
     /\ Publish("track", k.user, k.ride, "success", 0, 0,
                <<Emit("ride-location-update", RideRoom(k.ride))>>)
     /\ UNCHANGED <<isAvailable, acceptedBy, everAccepted, profile, quote,
                    sockets, currentLocation, deleted, payments, otps, users>>

\* --------------------------------------------- POST /:rideId/rate (ride.js)
\* rating and feedback values of a request body
Ratings == {4, 5}
Feedbacks == {"fine", "late"}

RateCheck(u, r) ==
  IF r \notin Existing THEN "NotFound"
  ELSE IF rides[r].user # u THEN "Unauthorized"
  ELSE IF rides[r].status # "completed" THEN "NotCompleted"
  ELSE IF rides[r].userRating.rating # 0 THEN "AlreadyRated"
  ELSE "ok"

\* Ride.findById and the checks on the loaded document; on a pass the
\* handler sets rating.userRating on its copy (the date is the instant of the
\* call, held as the call's slot) and calls ride.save()
RateLoad(c, u, r, rating, feedback) ==
     /\ FreeSlot(c)
     /\ IF RateCheck(u, r) = "ok"
          THEN /\ calls' = [calls EXCEPT ![c] =
                     [Idle EXCEPT !.op = "rate", !.user = u, !.ride = r,
                                  !.pc = "loaded",
                                  !.snapDriver = rides[r].driver,
                                  !.userRating = [rating |-> rating,
                                                  feedback |-> feedback,
                                                  date |-> c]]]
               /\ Quiet
          ELSE /\ Respond("rate", u, r, RateCheck(u, r), 0, 0)
               /\ UNCHANGED calls
     /\ UNCHANGED <<rides, isAvailable, acceptedBy, everAccepted, profile,
                    quote, sockets, currentLocation, deleted, payments, otps,
                    users>>

\* ride.save() resolved: the modified path rating.userRating is written,
\* whatever the store holds by now.  A ride without driver is answered 200.
RateSave(c) ==
  LET k == calls[c]
  IN /\ k.op = "rate" /\ k.pc = "loaded"
     /\ rides' = [rides EXCEPT ![k.ride].userRating = k.userRating]
     /\ IF k.snapDriver = NoDriver
          THEN Free(c) /\ Respond("rate", k.user, k.ride, "success", 0, 0)
          ELSE calls' = [calls EXCEPT ![c].pc = "saved"] /\ Quiet
     /\ UNCHANGED <<isAvailable, acceptedBy, everAccepted, profile, quote,
                    sockets, currentLocation, deleted, payments, otps, users>>

\* the documents the $match stage selects: the driver's completed rides that
\* hold a rating, each with its rating
Matching_AnyDriver(d) ==
  {<<r, rides[r].userRating.rating>> :
     r \in {x \in DOMAIN rides : /\ rides[x].status = "completed"
                                 /\ rides[x].userRating.rating # 0}}

Matching(d) ==
  {<<r, rides[r].userRating.rating>> :
     r \in {x \in DOMAIN rides : /\ rides[x].driver = d
                                 /\ rides[x].status = "completed"
                                 /\ rides[x].userRating.rating # 0}}

RECURSIVE SumOfRatings(_)
SumOfRatings(docs) ==
  IF docs = {} THEN 0
  ELSE LET doc == CHOOSE x \in docs : TRUE
       IN doc[2] + SumOfRatings(docs \ {doc})

\* $avg of the $group stage: the sum divided by the count, a double
Average(docs) == Quotient(SumOfRatings(docs), Cardinality(docs))

\* Math.round(averageRating * 10) / 10, held in tenths
RoundedRating(averageRating) == MathRound(Times(averageRating, Number(10)))

\* User.findById(ride.driver), Ride.countDocuments (its result is not used)
\* and Ride.aggregate resolved; an empty result is answered 200
RateAggregate(c) ==
  LET k == calls[c]
      docs == Matching(k.snapDriver)
  IN /\ k.op = "rate" /\ k.pc = "saved"
     /\ IF docs = {}
          THEN Free(c) /\ Respond("rate", k.user, k.ride, "success", 0, 0)
          ELSE /\ calls' = [calls EXCEPT ![c].pc = "aggregated",
                                         ![c].seen = docs,
                                         ![c].averageRating = Average(docs)]
               /\ Quiet
     /\ UNCHANGED <<rides, isAvailable, acceptedBy, everAccepted, profile,
                    quote, sockets, currentLocation, deleted, payments, otps,
                    users>>

\* RateDriverSave folding the call's own rating into the stored value
RateDriverSave_Incremental(c) ==
  LET k == calls[c]
  IN /\ k.op = "rate" /\ k.pc = "aggregated"
     /\ profile' = [profile EXCEPT ![k.snapDriver] =
                      [rating |-> (@.rating + 10 * k.userRating.rating) \div 2,
                       over |-> k.seen, again |-> k.seen = @.over]]
     /\ Free(c)
     /\ Respond("rate", k.user, k.ride, "success", 0, 0)
     /\ UNCHANGED <<rides, isAvailable, acceptedBy, everAccepted, quote,
                    sockets, currentLocation, deleted, payments, otps, users>>

\* driver.driverInfo.rating set and driver.save() resolved: 200
RateDriverSave(c) ==
  LET k == calls[c]
  IN /\ k.op = "rate" /\ k.pc = "aggregated"
     /\ profile' = [profile EXCEPT ![k.snapDriver] =
                      [rating |-> RoundedRating(k.averageRating),
                       over |-> k.seen, again |-> k.seen = @.over]]
     /\ Free(c)
     /\ Respond("rate", k.user, k.ride, "success", 0, 0)
     /\ UNCHANGED <<rides, isAvailable, acceptedBy, everAccepted, quote,
                    sockets, currentLocation, deleted, payments, otps, users>>

\* ------------------------------------- real-time connections (initializeSocket)
\* the io.use middleware: the token is taken from the handshake, verified,
\* and its user loaded
AuthenticateSocket_AnyUser(token) ==
  IF token = NoToken THEN "NoToken"
  ELSE IF ~token.valid THEN "InvalidToken"
  ELSE IF token.userId \notin Accounts THEN "InvalidUser"
  ELSE "ok"

AuthenticateSocket(token) ==
  IF token = NoToken THEN "NoToken"
  ELSE IF ~token.valid THEN "InvalidToken"
  ELSE IF token.userId \notin Accounts \/ ~isActive(token.userId)
    THEN "InvalidUser"
  ELSE "ok"

\* a handshake on connection s: when the middleware passes, the connection
\* handler joins the user's personal room and, for a driver, the drivers room
\* (the connection is in the room of its own id from the start)
Connect(s, token) ==
  /\ sockets[s] = NoSocket
  /\ IF AuthenticateSocket(token) = "ok"
       THEN sockets' = [sockets EXCEPT ![s] =
              [user |-> token.userId,
               rooms |-> {SocketRoom(s), UserRoom(token.userId)}
                         \cup (IF role(token.userId) = "Driver"
                                 THEN {DriversRoom} ELSE {}),
               token |-> token]]
       ELSE UNCHANGED sockets
  /\ Respond("connect", token.userId, s, AuthenticateSocket(token), 0, 0)
  /\ UNCHANGED <<rides, isAvailable, calls, acceptedBy, everAccepted, profile,
                 quote, currentLocation, deleted, payments, otps, users>>

\* 'disconnect': the connection leaves its rooms; a driver's isAvailable is
\* set to false (isOnline and lastSeen are read by no handler here)
Disconnect(s) ==
  /\ sockets[s] # NoSocket
  /\ sockets' = [sockets EXCEPT ![s] = NoSocket]
  /\ isAvailable' = IF role(sockets[s].user) = "Driver"
                      THEN [isAvailable EXCEPT ![sockets[s].user] = FALSE]
                      ELSE isAvailable
  /\ Quiet
  /\ UNCHANGED <<rides, calls, acceptedBy, everAccepted, profile, quote,
                 currentLocation, deleted, payments, otps, users>>

\* the ride ids a join-ride or update-location message carries: those of
\* the store and one that no ride has
MessageRideIds == 1..(MaxRides + 1)

\* 'join-ride': socket.join(`ride_${rideId}`)
JoinRide(s, r) ==
  /\ sockets[s] # NoSocket
  /\ RideRoom(r) \notin sockets[s].rooms
  /\ sockets' = [sockets EXCEPT ![s].rooms = @ \cup {RideRoom(r)}]
  /\ Quiet
  /\ UNCHANGED <<rides, isAvailable, calls, acceptedBy, everAccepted, profile,
                 quote, currentLocation, deleted, payments, otps, users>>

\* 'leave-ride': socket.leave(`ride_${rideId}`)
LeaveRide(s, r) ==
  /\ sockets[s] # NoSocket
  /\ RideRoom(r) \in sockets[s].rooms
  /\ sockets' = [sockets EXCEPT ![s].rooms = @ \ {RideRoom(r)}]
  /\ Quiet
  /\ UNCHANGED <<rides, isAvailable, calls, acceptedBy, everAccepted, profile,
                 quote, currentLocation, deleted, payments, otps, users>>

\* 'accept-ride' with rideId r: ride-accepted goes to the other connections
\* of the drivers room.  The store is not read.
AcceptRideMessage(s, r) ==
  /\ sockets[s] # NoSocket
  /\ Publish("accept-ride-message", sockets[s].user, r, "none", 0, 0,
             <<EmitFrom(s, "ride-accepted", DriversRoom)>>)
  /\ UNCHANGED <<rides, isAvailable, calls, acceptedBy, everAccepted, profile,
                 quote, sockets, currentLocation, deleted, payments, otps,
                 users>>

\* 'update-location' with rideId r (0: the message has none): a driver's
\* position is stored, then driver-location-update goes to the ride's room
\* and to every other connection; anyone else is sent an error
UpdateLocation(s, pos, r) ==
  /\ sockets[s] # NoSocket
  /\ IF role(sockets[s].user) # "Driver"
       THEN /\ emitted' = <<Emit("error", SocketRoom(s))>>
            /\ UNCHANGED currentLocation
       ELSE /\ currentLocation' =
                 [currentLocation EXCEPT ![sockets[s].user] = pos]
            /\ emitted' =
                 (IF r # 0
                    THEN <<EmitFrom(s, "driver-location-update", RideRoom(r))>>
                    ELSE <<>>)
                 \o <<EmitFrom(s, "driver-location-update", Everyone)>>
  /\ last' = NoResponse
  /\ UNCHANGED <<rides, isAvailable, calls, acceptedBy, everAccepted, profile,
                 quote, sockets, deleted, payments, otps, users>>

\* 'update-availability': a driver's isAvailable is stored and
\* driver-availability-update goes to every other connection
UpdateAvailability(s, b) ==
  /\ sockets[s] # NoSocket
  /\ IF role(sockets[s].user) # "Driver"
       THEN /\ emitted' = <<Emit("error", SocketRoom(s))>>
            /\ UNCHANGED isAvailable
       ELSE /\ isAvailable' = [isAvailable EXCEPT ![sockets[s].user] = b]
            /\ emitted' =
                 <<EmitFrom(s, "driver-availability-update", Everyone)>>
  /\ last' = NoResponse
  /\ UNCHANGED <<rides, calls, acceptedBy, everAccepted, profile, quote,
                 sockets, currentLocation, deleted, payments, otps, users>>

\* ------------------------------------------- the fare engine on its own
\* the arguments calculateFare is called with: route estimates (among them
\* estimates whose fare falls on half a hundredth), vehicle classes in and
\* out of the rate table, surge multipliers in halves (2 is the default 1)
FareEstimates == RouteEstimates \cup {<<5200, 1437>>, <<3000, 609>>}
VehicleClasses == DOMAIN BaseFares \cup {"Van", "Scooter"}
SurgeFactors2 == {2, 3, 4}

\* calculateFare called with the arguments held in quote
Calculate ==
  /\ quote.vehicleType # "none" /\ quote.result = NoResult
  /\ LET route == getDistanceAndDuration(quote.est)
     IN quote' = [quote EXCEPT !.result =
                    calculateFare(route.distance, route.duration,
                                  quote.vehicleType, Halves(quote.surge2))]
  /\ UNCHANGED <<rides, isAvailable, calls, last, acceptedBy, everAccepted,
                 profile, sockets, emitted, currentLocation, deleted,
                 payments, otps, users>>

\* ------------------------------------------------- signup (routes/auth.js)
Emails == {"a@x", "b@x"}
FullNames == {"Ann", "Bob"}
Codes == {1, 2}
NoUserData == [email |-> "none", fullName |-> "none"]

\* OTP.create: a signup record, not used, not expired, no attempt made
NewOtp(email, code, userData) ==
  [email |-> email, otp |-> code, isUsed |-> FALSE, expired |-> FALSE,
   attempts |-> 0, userData |-> userData]

\* otpRecord.verifyOTP(otp): the attempt is counted; the code is accepted
\* when the record is unused and unexpired and the code is the record's, and
\* the record is then used
verifyOTP(rec, code) ==
  LET ok == ~rec.isUsed /\ ~rec.expired /\ rec.otp = code
  IN [success |-> ok,
      record |-> [rec EXCEPT !.attempts = Min(@ + 1, MaxAttempts),
                             !.isUsed = @ \/ ok]]

\* the record's expiresAt passes
OtpExpires(i) ==
  /\ i \in DOMAIN otps
  /\ ~otps[i].expired
  /\ otps' = [otps EXCEPT ![i].expired = TRUE]
  /\ Quiet
  /\ UNCHANGED <<rides, isAvailable, calls, acceptedBy, everAccepted, profile,
                 quote, sockets, currentLocation, deleted, payments, users>>

\* req.tempUserData as POST /verify-otp reads it: the property is assigned
\* on the request object of POST /send-otp only, and every request has an
\* object of its own
tempUserData == NoUserData

\* POST /send-otp: 400 for an e-mail that has an account; else an OTP record
\* is created and the code mailed, the signup data put on the request: 200
SendOtp(email, fullName, code) ==
  /\ Len(otps) < MaxOtps
  /\ IF \E u \in users : u.email = email
       THEN /\ Respond("send-otp", email, 0, "UserExists", 0, 0)
            /\ UNCHANGED otps
       ELSE /\ otps' = Append(otps, NewOtp(email, code, NoUserData))
            /\ Respond("send-otp", email, 0, "success", 0, 0)
  /\ UNCHANGED <<rides, isAvailable, calls, acceptedBy, everAccepted, profile,
                 quote, sockets, currentLocation, deleted, payments, users>>

\* the account POST /verify-otp creates from the signup data
NewUser(userData) == [email |-> userData.email, fullName |-> userData.fullName]

\* what POST /verify-otp does with the record i it found and the signup data
\* it reads
VerifyFound(email, code, i, userData) ==
  LET v == verifyOTP(otps[i], code)
  IN /\ otps' = [otps EXCEPT ![i] = v.record]
     /\ IF ~v.success
          THEN /\ Respond("verify-otp", email, 0, "OtpRejected", 0, 0)
               /\ UNCHANGED users
          ELSE IF userData = NoUserData
          THEN /\ Respond("verify-otp", email, 0, "UserDataNotFound", 0, 0)
               /\ UNCHANGED users
          ELSE /\ users' = users \cup {NewUser(userData)}
               /\ Respond("verify-otp", email, 0, "success", 0, 0)

\* POST /verify-otp: an unused signup record of the e-mail is looked up (400
\* if there is none) and the code verified against it (400 if rejected); the
\* account is created from req.tempUserData (400 if that is not set): 201
VerifyOtp(email, code) ==
  LET found == {i \in DOMAIN otps : otps[i].email = email /\ ~otps[i].isUsed}
  IN /\ IF found = {}
          THEN /\ Respond("verify-otp", email, 0, "InvalidOtp", 0, 0)
               /\ UNCHANGED <<otps, users>>
          ELSE \E i \in found : VerifyFound(email, code, i, tempUserData)
     /\ UNCHANGED <<rides, isAvailable, calls, acceptedBy, everAccepted,
                    profile, quote, sockets, currentLocation, deleted,
                    payments>>

\* --------------------------- signup, second variant (routes/user.js 982 on)
\* the records that OTP.deleteMany({email, type: 'signup', isUsed: false})
\* leaves
deleteMany(email) ==
  SelectSeq(otps, LAMBDA rec : ~(rec.email = email /\ ~rec.isUsed))

\* POST /send-otp: 400 for an e-mail that has an account; else the unused
\* records of the e-mail are removed and a record holding the code and the
\* signup data is created: 200
SendOtpStored(email, fullName, code) ==
  /\ Len(deleteMany(email)) < MaxOtps
  /\ IF \E u \in users : u.email = email
       THEN /\ Respond("send-otp", email, 0, "UserExists", 0, 0)
            /\ UNCHANGED otps
       ELSE /\ otps' = Append(deleteMany(email),
                              NewOtp(email, code, [email |-> email,
                                                   fullName |-> fullName]))
            /\ Respond("send-otp", email, 0, "success", 0, 0)
  /\ UNCHANGED <<rides, isAvailable, calls, acceptedBy, everAccepted, profile,
                 quote, sockets, currentLocation, deleted, payments, users>>

\* sort({createdAt: -1}): the record created last
Latest(found) == CHOOSE i \in found : \A j \in found : j <= i

\* POST /verify-otp: the latest signup record of the e-mail is looked up and
\* the code verified against it; the account is created from the record's
\* userData: 201
VerifyOtpStored(email, code) ==
  LET found == {i \in DOMAIN otps : otps[i].email = email}
  IN /\ IF found = {}
          THEN /\ Respond("verify-otp", email, 0, "InvalidOtp", 0, 0)
               /\ UNCHANGED <<otps, users>>
          ELSE VerifyFound(email, code, Latest(found),
                           otps[Latest(found)].userData)
     /\ UNCHANGED <<rides, isAvailable, calls, acceptedBy, everAccepted,
                    profile, quote, sockets, currentLocation, deleted,
                    payments>>

\* ------------------------------------------ DELETE /account (routes/user.js)
\* authenticateToken (middleware/auth): the token resolves to an account
\* whose isActive is true
authenticateToken(u) == isActive(u)

ActiveStatuses == {"pending", "searching", "accepted", "arrived", "started"}

\* Ride.countDocuments({user, status: {$in: [...]}})
activeRides(u) ==
  Cardinality({r \in DOMAIN rides : /\ rides[r].user = u
                                    /\ rides[r].status \in ActiveStatuses})

\* the count of the caller's active rides: 400 if there is one
DeleteCheck(c, u) ==
  /\ FreeSlot(c)
  /\ IF activeRides(u) > 0
       THEN /\ Respond("delete-account", u, 0, "ActiveRides", 0, 0)
            /\ UNCHANGED calls
       ELSE /\ calls' = [calls EXCEPT ![c] =
                  [Idle EXCEPT !.op = "delete-account", !.user = u,
                               !.pc = "counted"]]
            /\ Quiet
  /\ UNCHANGED <<rides, isAvailable, acceptedBy, everAccepted, profile, quote,
                 sockets, currentLocation, deleted, payments, otps, users>>

\* User.findByIdAndUpdate(req.user._id, {isActive: false, ...}): 200
DeleteSave(c) ==
  LET k == calls[c]
  IN /\ k.op = "delete-account" /\ k.pc = "counted"
     /\ deleted' = deleted \cup {k.user}
     /\ Free(c)
     /\ Respond("delete-account", k.user, 0, "success", 0, 0)
     /\ UNCHANGED <<rides, isAvailable, acceptedBy, everAccepted, profile,
                    quote, sockets, currentLocation, payments, otps, users>>

\* ------------------------------------------- POST /withdraw (drivers)
\* Ride.aggregate: the sum of pricing.finalAmount over the rides the driver
\* has completed, among the first n rides
RECURSIVE totalEarnings(_, _)
totalEarnings(d, n) ==
  IF n = 0 THEN 0
  ELSE totalEarnings(d, n - 1)
       + (IF rides[n].driver = d /\ rides[n].status = "completed"
            THEN rides[n].finalAmount ELSE 0)

availableAmount(d) == totalEarnings(d, Len(rides))

\* POST /withdraw: 400 for no amount or an amount above the driver's total
\* earnings; else a pending withdrawal Payment is saved: 200
Withdraw(d, amount) ==
  /\ Len(payments) < MaxPayments
  /\ IF amount <= 0
       THEN /\ Respond("withdraw", d, 0, "InvalidAmount", 0, 0)
            /\ UNCHANGED payments
       ELSE IF amount > availableAmount(d)
       THEN /\ Respond("withdraw", d, 0, "InsufficientEarnings", 0, 0)
            /\ UNCHANGED payments
       ELSE /\ payments' = Append(payments,
                                  [user |-> d, type |-> "withdrawal",
                                   amount |-> amount, status |-> "pending"])
            /\ Respond("withdraw", d, 0, "success", 0, 0)
  /\ UNCHANGED <<rides, isAvailable, calls, acceptedBy, everAccepted, profile,
                 quote, sockets, currentLocation, deleted, otps, users>>

\* ------------------------------------------------------------ specification
\* Requests served one at a time, over every input.
Next ==
  \/ \E u \in Riders, t \in RequestedTypes, e \in RouteEstimates :
        RequestRide(u, t, e)
  \/ \E u \in Riders : RequestRideNoRoute(u)
  \/ \E d \in Drivers, b \in BOOLEAN : SetAvailability(d, b)
  \/ \E d \in Drivers, r \in RideIds : AcceptAuth(1, d, r)
  \/ AcceptLoad(1)
  \/ AcceptSave(1)
  \/ AcceptSetUnavailable(1)
  \/ AcceptNotifyFails(1)
  \/ \E u \in Cancellers, r \in RideIds : CancelLoad(1, u, r)
  \/ CancelSave(1)
  \/ CancelNotifyFails(1)
  \/ \E u \in Users, r \in RideIds, s \in RequestedStatuses :
        StatusLoad(1, u, r, s)
  \/ StatusSave(1)
  \/ StatusNotifyFails(1)
  \/ StatusSaveFails(1)
  \/ \E u \in Users, r \in RideIds : TrackLoad(1, u, r)
  \/ TrackSave(1)

Spec == Init /\ [][Next]_vars

\* The steps of a request that has been received: the awaited store
\* operation settles and the handler goes on.
Continue ==
  \/ AcceptLoad(1)
  \/ AcceptSave(1)
  \/ AcceptSetUnavailable(1)
  \/ AcceptNotifyFails(1)
  \/ CancelSave(1)
  \/ CancelNotifyFails(1)
  \/ StatusSave(1)
  \/ StatusNotifyFails(1)
  \/ StatusSaveFails(1)
  \/ TrackSave(1)

\* Requests served one at a time, every received request served to its
\* response.  Whether a further request arrives is up to the clients;
\* nothing in the server runs without one (no timer, no scheduled job).
SpecOffer == Init /\ [][Next]_vars /\ WF_vars(Continue)

\* Two requests in flight at a time, their steps interleaved.  The requests
\* issued here are Car rides over one route and, for cancel, status and track,
\* those that pass the handler's checks: a rejected one changes nothing.
RaceEstimate == <<20000, 4500>>

NextRace ==
  \/ \E u \in Riders : RequestRide(u, "Car", RaceEstimate)
  \/ \E d \in Drivers, b \in BOOLEAN : SetAvailability(d, b)
  \/ \E c \in Calls, d \in Drivers, r \in RideIds : AcceptAuth(c, d, r)
  \/ \E c \in Calls : AcceptLoad(c)
  \/ \E c \in Calls : AcceptSave(c)
  \/ \E c \in Calls : AcceptSetUnavailable(c)
  \/ \E c \in Calls : AcceptNotifyFails(c)
  \/ \E c \in Calls, u \in Riders, r \in RideIds :
        CancelCheck(u, r) = "ok" /\ CancelLoad(c, u, r)
  \/ \E c \in Calls : CancelSave(c)
  \/ \E c \in Calls : CancelNotifyFails(c)
  \/ \E c \in Calls : CancelSaveFails(c)
  \/ \E c \in Calls, u \in Drivers, r \in RideIds, s \in validStatuses :
        StatusCheck(u, r, s) = "ok" /\ StatusLoad(c, u, r, s)
  \/ \E c \in Calls : StatusSave(c)
  \/ \E c \in Calls : StatusNotifyFails(c)
  \/ \E c \in Calls : StatusSaveFails(c)
  \/ \E c \in Calls, u \in Drivers, r \in RideIds :
        TrackCheck(u, r) = "ok" /\ TrackLoad(c, u, r)
  \/ \E c \in Calls : TrackSave(c)

SpecRace == Init /\ [][NextRace]_vars

\* The fare engine alone: every combination of arguments, one call each.
InitFare ==
  /\ rides = <<>>
  /\ isAvailable = [d \in Drivers |-> FALSE]
  /\ calls = [c \in Calls |-> Idle]
  /\ last = NoResponse
  /\ acceptedBy = [r \in RideIds |-> {}]
  /\ everAccepted = {}
  /\ profile = [d \in Drivers |-> NoRating]
  /\ quote \in [est : FareEstimates, vehicleType : VehicleClasses,
                surge2 : SurgeFactors2, result : {NoResult}]
  /\ sockets = [s \in Conns |-> NoSocket]
  /\ emitted = <<>>
  /\ currentLocation = [d \in Drivers |-> 3]
  /\ deleted = {}
  /\ payments = <<>>
  /\ otps = <<>>
  /\ users = {}

NextFare == Calculate

SpecFare == InitFare /\ [][NextFare]_vars

\* Signup: OTPs are requested and verified and expire, one request at a
\* time, over a store without accounts.
NextSignup ==
  \/ \E e \in Emails, n \in FullNames, c \in Codes : SendOtp(e, n, c)
  \/ \E e \in Emails, c \in Codes : VerifyOtp(e, c)
  \/ \E i \in 1..MaxOtps : OtpExpires(i)

SpecSignup == Init /\ [][NextSignup]_vars

\* Signup through the second variant of the two handlers.
NextSignupStored ==
  \/ \E e \in Emails, n \in FullNames, c \in Codes : SendOtpStored(e, n, c)
  \/ \E e \in Emails, c \in Codes : VerifyOtpStored(e, c)
  \/ \E i \in 1..MaxOtps : OtpExpires(i)

SpecSignupStored == Init /\ [][NextSignupStored]_vars

\* Drivers accept and set their availability, two requests in flight at a
\* time, over a store of rides that wait for a driver.
OfferedIds == 1..OfferedRides

InitOffers ==
  /\ rides = [r \in OfferedIds |-> NewRide("u1", "Car", RaceEstimate)]
  /\ isAvailable \in [Drivers -> BOOLEAN]
  /\ calls = [c \in Calls |-> Idle]
  /\ last = NoResponse
  /\ acceptedBy = [r \in OfferedIds |-> {}]
  /\ everAccepted = {}
  /\ profile = [d \in Drivers |-> NoRating]
  /\ quote = NoQuote
  /\ sockets = [s \in Conns |-> NoSocket]
  /\ emitted = <<>>
  /\ currentLocation = [d \in Drivers |-> 3]
  /\ deleted = {}
  /\ payments = <<>>
  /\ otps = <<>>
  /\ users = {}

NextOffers ==
  \/ \E d \in Drivers, b \in BOOLEAN : SetAvailability(d, b)
  \/ \E c \in Calls, d \in Drivers, r \in OfferedIds : AcceptAuth(c, d, r)
  \/ \E c \in Calls : AcceptLoad(c)
  \/ \E c \in Calls : AcceptSave(c)
  \/ \E c \in Calls : AcceptSetUnavailable(c)
  \/ \E c \in Calls : AcceptNotifyFails(c)

SpecOffers == InitOffers /\ [][NextOffers]_vars

\* Accounts are deleted while rides are requested and accepted, two requests
\* in flight at a time; a request is received from an active account only.
NextAccounts ==
  \/ \E c \in Calls, u \in Users : authenticateToken(u) /\ DeleteCheck(c, u)
  \/ \E c \in Calls : DeleteSave(c)
  \/ \E u \in Riders :
        authenticateToken(u) /\ RequestRide(u, "Car", RaceEstimate)
  \/ \E d \in Drivers, b \in BOOLEAN :
        authenticateToken(d) /\ SetAvailability(d, b)
  \/ \E c \in Calls, d \in Drivers, r \in RideIds :
        authenticateToken(d) /\ AcceptAuth(c, d, r)
  \/ \E c \in Calls : AcceptLoad(c)
  \/ \E c \in Calls : AcceptSave(c)
  \/ \E c \in Calls : AcceptSetUnavailable(c)
  \/ \E c \in Calls : AcceptNotifyFails(c)

SpecAccounts == Init /\ [][NextAccounts]_vars

\* The event bus: connections come and go, join and leave ride rooms and
\* report positions, over a store that is empty or holds one ride that d1
\* has accepted, while a ride is requested.
InitBus ==
  /\ rides \in {<<>>, <<[NewRide("u1", "Car", RaceEstimate)
                          EXCEPT !.status = "accepted", !.driver = "d1"]>>}
  /\ isAvailable \in {f \in [Drivers -> BOOLEAN] : rides # <<>> => ~f["d1"]}
  /\ calls = [c \in Calls |-> Idle]
  /\ last = NoResponse
  /\ acceptedBy = [r \in RideIds |-> IF rides = <<>> THEN {} ELSE {"d1"}]
  /\ everAccepted = DOMAIN rides
  /\ profile = [d \in Drivers |-> NoRating]
  /\ quote = NoQuote
  /\ sockets = [s \in Conns |-> NoSocket]
  /\ emitted = <<>>
  /\ currentLocation = [d \in Drivers |-> 3]
  /\ deleted = {}
  /\ payments = <<>>
  /\ otps = <<>>
  /\ users = {}

NextBus ==
  \/ \E s \in Conns, t \in Tokens : Connect(s, t)
  \/ \E s \in Conns : Disconnect(s)
  \/ \E s \in Conns, r \in MessageRideIds : JoinRide(s, r)
  \/ \E s \in Conns, r \in MessageRideIds : LeaveRide(s, r)
  \/ \E s \in Conns, pos \in Positions, r \in {0} \cup MessageRideIds :
        UpdateLocation(s, pos, r)
  \/ \E s \in Conns, b \in BOOLEAN : UpdateAvailability(s, b)
  \/ \E s \in Conns, r \in MessageRideIds : AcceptRideMessage(s, r)
  \/ \E u \in Riders : RequestRide(u, "Car", RaceEstimate)

SpecBus == InitBus /\ [][NextBus]_vars

\* Track requests of the assigned driver, two in flight at a time, on a ride
\* that has been started and is being completed.
InitTrack ==
  /\ rides = <<[NewRide("u1", "Car", RaceEstimate)
                  EXCEPT !.status = "started", !.driver = "d1"]>>
  /\ isAvailable \in {f \in [Drivers -> BOOLEAN] : ~f["d1"]}
  /\ calls = [c \in Calls |-> Idle]
  /\ last = NoResponse
  /\ acceptedBy = [r \in RideIds |-> IF r = 1 THEN {"d1"} ELSE {}]
  /\ everAccepted = {1}
  /\ profile = [d \in Drivers |-> NoRating]
  /\ quote = NoQuote
  /\ sockets = [s \in Conns |-> NoSocket]
  /\ emitted = <<>>
  /\ currentLocation = [d \in Drivers |-> 3]
  /\ deleted = {}
  /\ payments = <<>>
  /\ otps = <<>>
  /\ users = {}

NextTrack ==
  \/ \E c \in Calls, u \in Drivers : TrackLoad(c, u, 1)
  \/ \E c \in Calls : TrackSave(c)
  \/ \E c \in Calls : StatusCheck("d1", 1, "completed") = "ok"
                       /\ StatusLoad(c, "d1", 1, "completed")
  \/ \E c \in Calls : StatusSave(c)
  \/ \E c \in Calls : StatusNotifyFails(c)
  \/ \E c \in Calls : StatusSaveFails(c)

SpecTrack == InitTrack /\ [][NextTrack]_vars

\* The rating handler over a store of rides that drivers have started or
\* completed, while the started ones are being completed.
RatedIds == 1..RatedRides

\* the stores of rides ids, each ride started or completed by some driver
RatingStore(ids) ==
  /\ rides \in [ids ->
                  {[NewRide("u1", "Car", RaceEstimate)
                      EXCEPT !.status = st, !.driver = d] :
                     st \in {"started", "completed"}, d \in Drivers}]
  /\ isAvailable = [d \in Drivers |-> FALSE]
  /\ calls = [c \in Calls |-> Idle]
  /\ last = NoResponse
  /\ acceptedBy = [r \in ids |-> {rides[r].driver}]
  /\ everAccepted = ids
  /\ profile = [d \in Drivers |-> NoRating]
  /\ quote = NoQuote
  /\ sockets = [s \in Conns |-> NoSocket]
  /\ emitted = <<>>
  /\ currentLocation = [d \in Drivers |-> 3]
  /\ deleted = {}
  /\ payments = <<>>
  /\ otps = <<>>
  /\ users = {}

InitRating == RatingStore(RatedIds)

\* requests served one at a time
NextRating ==
  \/ \E u \in Cancellers, r \in 1..(RatedRides + 1), n \in Ratings,
        f \in Feedbacks : RateLoad(1, u, r, n, f)
  \/ RateSave(1)
  \/ RateAggregate(1)
  \/ RateDriverSave(1)
  \/ \E u \in Drivers, r \in RatedIds :
        StatusCheck(u, r, "completed") = "ok"
        /\ StatusLoad(1, u, r, "completed")
  \/ StatusSave(1)
  \/ StatusNotifyFails(1)
  \/ StatusSaveFails(1)

SpecRating == InitRating /\ [][NextRating]_vars

\* two rate requests in flight at a time, their steps interleaved, over a
\* store of one ride less
RaceIds == 1..(RatedRides - 1)

InitRatingRace == RatingStore(RaceIds)

NextRatingRace ==
  \/ \E c \in Calls, u \in Cancellers, r \in RaceIds, n \in Ratings,
        f \in Feedbacks : RateLoad(c, u, r, n, f)
  \/ \E c \in Calls : RateSave(c)
  \/ \E c \in Calls : RateAggregate(c)
  \/ \E c \in Calls : RateDriverSave(c)

SpecRatingRace == InitRatingRace /\ [][NextRatingRace]_vars

\* Drivers request withdrawals, one request at a time, over a store of rides
\* that drivers have started or completed, while the started ones are being
\* completed.
\* the amount due for a ride of the store, in hundredths
RaceFare == NewRide("u1", "Car", RaceEstimate).finalAmount

\* req.body.amount, in hundredths: none, one ride's fare, two rides' fares
Amounts == {0, RaceFare, 2 * RaceFare}

NextWithdraw ==
  \/ \E d \in Drivers, a \in Amounts : Withdraw(d, a)
  \/ \E u \in Drivers, r \in RaceIds :
        StatusCheck(u, r, "completed") = "ok"
        /\ StatusLoad(1, u, r, "completed")
  \/ StatusSave(1)
  \/ StatusNotifyFails(1)
  \/ StatusSaveFails(1)

SpecWithdraw == InitRatingRace /\ [][NextWithdraw]_vars

\* ----------------------------------------------------------------- claims
\* C1: when several drivers call accept-ride on the same pending ride, exactly
\* one call answers success, so no ride ever has two drivers that were both
\* told their accept succeeded.
C1_AtMostOneAcceptSucceeds ==
  \A r \in RideIds : Cardinality(acceptedBy[r]) <= 1

\* C2: once a ride is completed or cancelled, no step of any handler changes
\* its status.
C2_TerminalIsPermanent ==
  [][\A r \in DOMAIN rides :
       rides[r].status \in Terminal => rides'[r].status = rides[r].status]_vars

\* the lifecycle order the claims speak of
Order == <<"accepted", "arrived", "started", "completed">>

IsNextInOrder(old, new) ==
  \E i \in 1..(Len(Order) - 1) : Order[i] = old /\ Order[i + 1] = new

C4_AcceptedOnlyByOpenClaim ==
  [][\A r \in DOMAIN rides :
       (rides'[r].status = "accepted" /\ rides[r].status # "accepted")
       => /\ \E c \in Calls : /\ calls[c].op = "accept" /\ calls[c].ride = r
                               /\ calls[c].pc = "loaded" /\ calls'[c].pc = "saved"
          /\ rides[r].status \in {"pending", "searching"}]_vars

\* C5: a status update or a tracking append by a caller who is not the ride's
\* assigned driver (the ride may have none) is answered Unauthorized and
\* changes no ride.
C5_OnlyAssignedDriver ==
  [][(/\ last'.op \in {"status", "track"}
      /\ last'.ride \in DOMAIN rides
      /\ rides[last'.ride].driver # last'.user)
     => (last'.result = "Unauthorized" /\ rides' = rides)]_vars

\* another driver's status update on an assigned ride has just been refused
C5_Witness ==
  /\ last.op = "status" /\ last.result = "Unauthorized"
  /\ last.ride \in DOMAIN rides
  /\ rides[last.ride].driver \notin {NoDriver, last.user}

\* C6: accept-ride writes the ride only when its status is pending or
\* searching at the time of the claim; with any other status the ride's
\* driver stays as it was.
C6_ClaimOnlyWhileOpen ==
  [][\A r \in DOMAIN rides :
       rides'[r].driver # rides[r].driver
       => rides[r].status \in {"pending", "searching"}]_vars

\* C7 as stated: accept-ride by a driver of another vehicle class is answered
\* VehicleMismatch.
C7_MismatchAlwaysVehicleMismatch ==
  (/\ last.op = "accept"
   /\ last.ride \in DOMAIN rides
   /\ rides[last.ride].rideType # DriverVehicle(last.user))
  => last.result = "VehicleMismatch"

\* C7 as amended: accept-ride by a driver of another vehicle class is answered
\* VehicleMismatch on a pending ride and RideUnavailable on any other ride,
\* and leaves the rides and the available flags unchanged.
C7_MismatchRejected ==
  [][(/\ last'.op = "accept"
      /\ last'.ride \in DOMAIN rides
      /\ rides[last'.ride].rideType # DriverVehicle(last'.user))
     => (/\ last'.result = (IF rides[last'.ride].status = "pending"
                              THEN "VehicleMismatch" ELSE "RideUnavailable")
         /\ rides' = rides
         /\ isAvailable' = isAvailable)]_vars

\* a Car driver's accept of a pending Bike ride has just been refused
C7_Witness ==
  /\ last.op = "accept" /\ last.result = "VehicleMismatch"
  /\ rides[last.ride].status = "pending"
  /\ rides[last.ride].rideType # DriverVehicle(last.user)

\* C8: in every state, between the steps of the handlers too, a ride has no
\* driver exactly when it is pending, searching, or cancelled without ever
\* having been accepted.
C8_DriverIffClaimed ==
  \A r \in DOMAIN rides :
    (rides[r].driver = NoDriver)
    <=> \/ rides[r].status \in {"pending", "searching"}
        \/ rides[r].status = "cancelled" /\ r \notin everAccepted

\* an accept-ride call has written the ride and not yet the driver's flag,
\* while a cancel that loaded the ride before is still to write
C8_Witness ==
  \E c, c2 \in Calls :
    /\ calls[c].op = "accept" /\ calls[c].pc = "saved"
    /\ rides[calls[c].ride].status = "accepted"
    /\ rides[calls[c].ride].driver = calls[c].user
    /\ calls[c2].op = "cancel" /\ calls[c2].snapDriver = NoDriver

\* C9: the fee of a cancel is min(10% of finalAmount, 50) when the ride is
\* accepted or arrived at cancel time and 0 otherwise, in the stored
\* cancellation record and in the response.
C9_CancellationFee ==
  [][\A r \in DOMAIN rides :
       (rides[r].status # "cancelled" /\ rides'[r].status = "cancelled")
       => LET fare == rides[r].finalAmount
              fee == rides'[r].cancellation.fee
          IN /\ IF rides[r].status \in {"accepted", "arrived"}
                  THEN \/ fare <= 50000 /\ fee = fare
                       \/ fare >= 50000 /\ fee = 50000
                  ELSE fee = 0
             /\ last'.result = "success" => last'.fee = fee]_vars

\* an accepted ride with fare 500.00 has just been cancelled for a fee of 50
C9_Witness ==
  /\ last.op = "cancel" /\ last.result = "success" /\ last.fee = 50000
  /\ rides[last.ride].finalAmount = 50000
  /\ rides[last.ride].cancellation.fee = 50000

\* C10: the refund a successful cancel reports is finalAmount minus the fee
\* and is not negative.
C10_RefundIsFareMinusFee ==
  (last.op = "cancel" /\ last.result = "success")
  => /\ last.refund = 10 * rides[last.ride].finalAmount - last.fee
     /\ last.refund >= 0

\* a cancel with a fee has just reported its refund
C10_Witness ==
  /\ last.op = "cancel" /\ last.result = "success"
  /\ last.fee > 0 /\ last.refund > 0

\* C11: a cancel by the requester of a completed or cancelled ride is answered
\* AlreadyFinalized at once and leaves every ride, its cancellation record and
\* fee included, as it was; no such cancel gets past the handler's checks.
C11_FinishedRideNotCancelled ==
  [][/\ (/\ last'.op = "cancel"
         /\ last'.ride \in DOMAIN rides
         /\ rides[last'.ride].user = last'.user
         /\ rides[last'.ride].status \in Terminal)
        => (last'.result = "AlreadyFinalized" /\ rides' = rides)
     /\ \A c \in Calls :
          (calls'[c].op = "cancel" /\ calls[c].op # "cancel")
          => rides[calls'[c].ride].status \notin Terminal]_vars

\* the requester's second cancel of a ride cancelled for a fee has just been
\* refused
C11_Witness ==
  /\ last.op = "cancel" /\ last.result = "AlreadyFinalized"
  /\ rides[last.ride].status = "cancelled"
  /\ rides[last.ride].cancellation.fee > 0

\* C12: a requester's cancel succeeds only on a ride that is pending,
\* searching, accepted or arrived; in particular not on a started ride.
C12_CancelOnlyBeforeStart ==
  [][(last'.op = "cancel" /\ last'.result = "success")
     => rides[last'.ride].status \in {"pending", "searching", "accepted",
                                      "arrived"}]_vars

\* C13: over any interleaving of rate calls the rating record of a ride is
\* written only while it is empty and the ride is completed, hence at most
\* once; a rate call answered NotCompleted or AlreadyRated writes nothing.
C13_RatedAtMostOnce ==
  [][/\ \A r \in DOMAIN rides :
          rides'[r].userRating # rides[r].userRating
          => (rides[r].userRating = NoUserRating
              /\ rides[r].status = "completed")
     /\ (last'.op = "rate" /\ last'.result \in {"NotCompleted", "AlreadyRated"})
        => rides' = rides]_vars

\* the completed rides of driver d in a store that hold a rating
CompletedRated(store, d) ==
  {r \in DOMAIN store : /\ store[r].driver = d
                        /\ store[r].status = "completed"
                        /\ store[r].userRating.rating # 0}

RECURSIVE Total(_, _)
Total(store, ids) ==
  IF ids = {} THEN 0
  ELSE LET r == CHOOSE x \in ids : TRUE
       IN store[r].userRating.rating + Total(store, ids \ {r})

\* the mean of the ratings of ids, rounded to one decimal, in tenths
MeanInTenths(store, ids) ==
  (20 * Total(store, ids) + Cardinality(ids)) \div (2 * Cardinality(ids))

ExactTimes(x, y) == [m |-> MulLimbs(x.m, y.m), e |-> x.e + y.e]

ExactFare(distance, duration, vehicleType, surgeMultiplier) ==
  LET rates == BaseFares[vehicleType]
      distanceFare == ExactTimes(distance, Number(rates.perKm))
      timeFare == ExactTimes(duration, Halves(rates.perMin2))
      totalFare == ExactTimes(Sum(Sum(Number(rates.base), distanceFare),
                                  timeFare), surgeMultiplier)
  IN [baseFare     |-> rates.base * 100,
      distanceFare |-> MathRound(ExactTimes(distanceFare, Number(100))),
      timeFare     |-> MathRound(ExactTimes(timeFare, Number(100))),
      totalFare    |-> MathRound(ExactTimes(totalFare, Number(100)))]

\* C16: for a vehicle class of the rate table, every amount calculateFare
\* returns is the amount of the formula (base + distance*perKm +
\* duration*perMin) * surge, respectively distance*perKm and duration*perMin,
\* rounded to two decimals.
C16_FareIsRoundedFormula ==
  (quote.result # NoResult /\ quote.vehicleType \in DOMAIN BaseFares)
  => LET route == getDistanceAndDuration(quote.est)
         exact == ExactFare(route.distance, route.duration, quote.vehicleType,
                            Halves(quote.surge2))
     IN /\ quote.result.baseFare = exact.baseFare
        /\ quote.result.distanceFare = exact.distanceFare
        /\ quote.result.timeFare = exact.timeFare
        /\ quote.result.totalFare = exact.totalFare

C19_NewRideIsPendingAndPriced ==
  [][(last'.op = "request" /\ last'.result = "success")
     => LET ride == rides'[last'.ride]
            route == getDistanceAndDuration(ride.route)
        IN /\ last'.ride \notin DOMAIN rides
           /\ ride.status = "pending"
           /\ ride.driver = NoDriver
           /\ ride.finalAmount =
                calculateFare(route.distance, route.duration, ride.rideType,
                              Number(1)).totalFare]_vars

\* a Car ride of 6.2 km and 18 min has just been requested: 179.00
C19_Witness ==
  /\ last.op = "request" /\ last.result = "success"
  /\ rides[last.ride].rideType = "Car"
  /\ rides[last.ride].route = <<6200, 1080>>
  /\ rides[last.ride].finalAmount = 17900

\* C20: once a request has succeeded and its offer has been broadcast, the
\* ride's status is searching.
C20_SearchingAfterBroadcast ==
  (last.op = "request" /\ last.result = "success")
  => rides[last.ride].status = "searching"


\* C21: a ride request whose route lookup fails is answered RouteUnavailable,
\* persists no ride and publishes no event.
C21_NoRouteNothingPersisted ==
  [][(last'.op = "request" /\ last'.result = "RouteUnavailable")
     => (rides' = rides /\ emitted' = <<>>)]_vars

\* a request has just been refused for want of a route, no ride is stored
C21_Witness ==
  /\ last.op = "request" /\ last.result = "RouteUnavailable"
  /\ rides = <<>> /\ emitted = <<>>

\* C22: a ride's tracking log grows only while the ride is started, and a
\* track call answered success was made on a started ride.
C22_TrackOnlyWhileStarted ==
  [][\A r \in DOMAIN rides :
       rides'[r].tracking # rides[r].tracking
       => rides[r].status = "started"]_vars

C24_TransitionPublishesToRideRoom ==
  [][(last'.op \in {"accept", "status", "cancel"} /\ last'.result = "success")
     => Cardinality({i \in DOMAIN emitted' :
                       emitted'[i].to = RideRoom(last'.ride)}) = 1]_vars

\* C25: a new-ride-request offer is delivered only to connections of
\* drivers who are available, drive the requested class and are within 10
\* distance units of the pickup.
C25_OfferOnlyToEligibleDrivers ==
  \A i \in DOMAIN emitted :
    emitted[i].name = "new-ride-request"
    => \A s \in Receivers(emitted[i]) :
         LET u == sockets[s].user
         IN /\ u \in Drivers
            /\ isAvailable[u]
            /\ DriverVehicle(u) = rides[last.ride].rideType
            /\ currentLocation[u] <= 10

\* C26: when accept-ride answers success to a driver, the driver's
\* isAvailable is false, and a driver's isAvailable turns from false to true
\* only by that driver's own availability update.
C26_UnavailableAfterAccept ==
  [][/\ (last'.op = "accept" /\ last'.result = "success")
        => ~isAvailable'[last'.user]
     /\ \A d \in Drivers :
          (~isAvailable[d] /\ isAvailable'[d]) => SetAvailability(d, TRUE)]_vars

\* a driver whose accept succeeded has completed the ride and is still
\* unavailable
C26_Witness ==
  \E r \in DOMAIN rides :
    /\ rides[r].status = "completed"
    /\ rides[r].driver \in acceptedBy[r]
    /\ ~isAvailable[rides[r].driver]

\* C27: an established connection presented a token that verifies and that
\* was issued for its user, an existing account whose isActive is true; a
\* handshake that was refused has left its connection unestablished, in no
\* room.
C27_OnlyAuthenticatedConnections ==
  /\ \A s \in Conns :
       sockets[s] # NoSocket
       => /\ sockets[s].token.valid
          /\ sockets[s].token.userId = sockets[s].user
          /\ sockets[s].user \in Accounts
          /\ isActive(sockets[s].user)
  /\ (last.op = "connect" /\ last.result # "ok")
     => sockets[last.ride] = NoSocket

\* the handshake of the inactive account u2 has just been refused while
\* another connection is established
C27_Witness ==
  /\ last.op = "connect" /\ last.user = "u2" /\ last.result = "InvalidUser"
  /\ sockets[last.ride] = NoSocket
  /\ \E s \in Conns : sockets[s] # NoSocket

\* C28: a connection is in the room of a ride only if its user is the
\* ride's requester or its assigned driver.
C28_RideRoomOnlyParties ==
  \A s \in Conns, r \in MessageRideIds :
    RideRoom(r) \in sockets[s].rooms
    => /\ r \in DOMAIN rides
       /\ sockets[s].user \in {rides[r].user, rides[r].driver}

\* C29: the events one message publishes reach each connection at most
\* once: one update-location message causes at most one
\* driver-location-update delivery to a connection.
C29_AtMostOneDelivery ==
  \A s \in Conns : Deliveries("driver-location-update", s) <= 1

\* C30: when the notification record of an accept, a status update or a
\* cancel cannot be saved, the handler answers an error and the ride holds
\* the status and the driver that the transition wrote.
C30_NoRollbackOnNotificationFailure ==
  [][(last'.result = "ServerError"
      /\ last'.op \in {"accept", "status", "cancel"})
     => LET r == last'.ride
        IN /\ last'.op = "accept"
              => (rides'[r].status = "accepted"
                  /\ rides'[r].driver = last'.user)
           /\ last'.op = "status"
              => (/\ \E c \in Calls : /\ calls[c].op = "status"
                                       /\ calls'[c] = Idle
                                       /\ rides'[r].status = calls[c].arg
                  /\ rides'[r].driver = rides[r].driver)
           /\ last'.op = "cancel"
              => (rides'[r].status = "cancelled"
                  /\ rides'[r].driver = rides[r].driver)]_vars

\* the notification of the update to completed could not be saved: the ride
\* is completed
C30_Witness ==
  /\ last.op = "status" /\ last.result = "ServerError"
  /\ rides[last.ride].status = "completed"

\* C31: a ride that waits for a driver (pending or searching) and that no
\* driver accepts leads to a 'no driver found' outcome for its requester:
\* from every state in which a ride waits, a state follows in which the
\* ride has been accepted or cancelled, or an event or response telling
\* that no driver was found has been sent.
C31_NoDriverFoundEventually ==
  \A r \in RideIds :
    (r \in DOMAIN rides /\ rides[r].status \in {"pending", "searching"})
    ~> \/ r \in DOMAIN rides /\ rides[r].status \notin {"pending", "searching"}
       \/ last.result = "NoDriverFound"
       \/ \E i \in DOMAIN emitted : emitted[i].name = "no-driver-found"

\* C32: whenever verify-otp presents the code of an unused, unexpired OTP
\* record of an e-mail, the request is answered with success and an account
\* of that e-mail exists.
C32_CorrectOtpCreatesAccount ==
  [][\A e \in Emails, c \in Codes :
       (/\ VerifyOtp(e, c)
        /\ \A i \in DOMAIN otps :
             (otps[i].email = e /\ ~otps[i].isUsed)
             => (otps[i].otp = c /\ ~otps[i].expired)
        /\ \E i \in DOMAIN otps : otps[i].email = e /\ ~otps[i].isUsed)
       => (/\ last'.result = "success"
           /\ \E u \in users' : u.email = e)]_vars

\* The second variant of the handlers creates the account from the data
\* stored with the e-mail's latest record, when that record's code is
\* presented.
SecondVariantCreatesAccount ==
  [][\A e \in Emails, c \in Codes :
       (/\ VerifyOtpStored(e, c)
        /\ \E i \in DOMAIN otps : otps[i].email = e
        /\ LET rec == otps[Latest({i \in DOMAIN otps : otps[i].email = e})]
           IN ~rec.isUsed /\ ~rec.expired /\ rec.otp = c)
       => (/\ last'.result = "success"
           /\ \E u \in users' : \E i \in DOMAIN otps :
                 u = NewUser(otps[i].userData) /\ u.email = e)]_vars

\* C33: a step of the status handler or of the cancel handler leaves every
\* driver's isAvailable as it was: completing or cancelling a ride does not
\* make its driver available again.
C33_StatusAndCancelKeepAvailability ==
  [][(\/ last'.op \in {"status", "cancel"}
      \/ \E c \in Calls : /\ calls'[c] # calls[c]
                          /\ calls'[c].op \in {"status", "cancel"})
     => isAvailable' = isAvailable]_vars

\* the requester has just cancelled a ride that a driver had accepted, and
\* that driver is still unavailable
C33_Witness ==
  /\ last.op = "cancel" /\ last.result = "success"
  /\ rides[last.ride].status = "cancelled"
  /\ rides[last.ride].driver \in acceptedBy[last.ride]
  /\ ~isAvailable[rides[last.ride].driver]

\* C34: a driver is the assigned driver of at most one ride whose status is
\* accepted, arrived or started.
C34_AtMostOneActiveRide ==
  \A d \in Drivers :
    Cardinality({r \in DOMAIN rides :
                   /\ rides[r].driver = d
                   /\ rides[r].status \in {"accepted", "arrived", "started"}})
      <= 1

\* C35: of a cancel and an accept-ride that both read a ride as pending at
\* most one takes effect: a cancel that read the ride as pending succeeds
\* only on a ride without a driver, and an accept-ride writes only to a ride
\* without a cancellation record.
C35_CancelOrAcceptNotBoth ==
  [][\A c \in Calls :
       /\ (/\ calls[c].op = "cancel" /\ calls[c].snapStatus = "pending"
           /\ calls'[c] = Idle
           /\ last'.op = "cancel" /\ last'.result = "success")
          => rides'[calls[c].ride].driver = NoDriver
       /\ (/\ calls[c].op = "accept" /\ calls[c].pc = "loaded"
           /\ calls'[c].pc = "saved")
          => rides[calls[c].ride].cancellation = NoCancellation]_vars

\* C36: when accept-ride answers an error, the handler has written nothing:
\* the answering step leaves the rides and the availability flags as they
\* were, and the request had not saved the ride before.
C36_FailedAcceptChangesNothing ==
  [][(last'.op = "accept" /\ last'.result # "success")
     => /\ rides' = rides
        /\ isAvailable' = isAvailable
        /\ \A c \in Calls :
             (calls[c].op = "accept" /\ calls'[c] = Idle)
             => calls[c].pc # "saved"]_vars

\* C37: a ride-accepted event is published only for a ride whose stored
\* status is accepted and whose assigned driver is the user whose request
\* or message the event was published for.
C37_RideAcceptedOnlyAfterClaim ==
  \A i \in DOMAIN emitted :
    emitted[i].name = "ride-accepted"
    => /\ last.ride \in DOMAIN rides
       /\ rides[last.ride].status = "accepted"
       /\ rides[last.ride].driver = last.user

\* the sum of the amounts of the first n withdrawal requests saved for
\* driver d
RECURSIVE Withdrawn(_, _)
Withdrawn(d, n) ==
  IF n = 0 THEN 0
  ELSE Withdrawn(d, n - 1)
       + (IF payments[n].user = d THEN payments[n].amount ELSE 0)

\* C38: for each driver, the amounts of the withdrawal requests accepted
\* sum to at most the finalAmount of the driver's completed rides.
C38_WithdrawalsWithinEarnings ==
  \A d \in Drivers : Withdrawn(d, Len(payments)) <= availableAmount(d)

\* C39: no deleted account is the requester or the assigned driver of a
\* ride whose status is pending, searching, accepted, arrived or started.
C39_NoDeletedPartyOfActiveRide ==
  \A r \in DOMAIN rides :
    rides[r].status \in ActiveStatuses
    => (rides[r].user \notin deleted /\ rides[r].driver \notin deleted)

====
